---- MODULE Spec2Model ----
(***************************************************************************)
(* A model of rl_gear: the metadata logger adapter and the config resolver *)
(* of rllib_utils.py, and the model library of torch_models.py.            *)
(***************************************************************************)
EXTENDS Integers, Sequences, FiniteSets, TLC

VARIABLES
    \* ---- RllibLogMetaData (rllib_utils.py) and the experiment directory
    lg_state,               \* "uninitialized" | "initialized"
    logdir,                 \* self.logdir
    saved_continue_script,  \* self.saved_continue_script: "unset" | "False" | "True"
    meta_written,           \* the log directories meta_data_writer.write was given
    fs,                     \* *.json manifests of Path(logdir).parent: name -> 'checkpoints'
    continue_py,            \* continue.py of Path(logdir).parent: "None" or the json_fname in it
    n_results,              \* on_result calls made
    n_reads,                \* manifests opened for reading
    n_writes,               \* times continue.py was opened for writing
    \* ---- make_basic_rllib_config (rllib_utils.py)
    cfg,
    \* ---- out_shape / dqn_cnn (torch_models.py)
    shp,
    \* ---- the model classes (torch_models.py)
    model,                  \* the constructed model object, or NoModel
    vf                      \* what the last value_function() call did

lgvars == <<lg_state, logdir, saved_continue_script, meta_written, fs,
            continue_py, n_results, n_reads, n_writes>>
vars == <<lg_state, logdir, saved_continue_script, meta_written, fs,
          continue_py, n_results, n_reads, n_writes, cfg, shp, model, vf>>

(***************************************************************************)
(* Bounds                                                                  *)
(***************************************************************************)
MaxCheckpoints == 2     \* longest 'checkpoints' list of a manifest
MaxResults == 3         \* on_result callbacks per logger
MaxCPU == 4             \* largest cluster CPU count
MaxRequested == 5       \* largest num_workers a tune_kwargs block asks for
MaxBlocks == 2          \* most names in rllib.tune_kwargs_blocks
MaxSize == 5            \* largest input size given to out_shape
MaxSeed == 2            \* seeds of the random parameter initialisation

(***************************************************************************)
(* Generic helpers                                                         *)
(***************************************************************************)
SeqsUpTo(S, n) == UNION {[1..m -> S] : m \in 0..n}

Perms(S) == {p \in [1..Cardinality(S) -> S] :
                \A i, j \in 1..Cardinality(S) : i # j => p[i] # p[j]}

Max2(a, b) == IF a >= b THEN a ELSE b

\* The values the variables of one component keep while another is checked.
IdleCfg == [called |-> FALSE, cpu |-> 0, gpu |-> 0, blocks |-> <<>>,
            max_num_workers |-> 0, num_workers |-> 0, num_gpus |-> 0,
            warned |-> FALSE]
NoArray == [ndim |-> 0, v |-> <<>>]
IdleShp == [called |-> FALSE, inp |-> NoArray, kernel |-> NoArray,
            stride |-> NoArray, padding |-> NoArray,
            raised |-> "none", out |-> NoArray]
NoModel == [variant |-> "None"]
NoCall == [outcome |-> "none", value |-> 0, forwarded |-> FALSE, obs |-> 0]
LoggerIdle ==
    /\ lg_state = "uninitialized" /\ logdir = "None"
    /\ saved_continue_script = "unset" /\ meta_written = {}
    /\ fs = [x \in {} |-> <<>>] /\ continue_py = "None"
    /\ n_results = 0 /\ n_reads = 0 /\ n_writes = 0

(***************************************************************************)
(* RllibLogMetaData                                                        *)
(***************************************************************************)
LogDirs == {"exp/trial_a", "exp/trial_b"}
JsonFiles == {"exp/state-1.json", "exp/state-2.json"}

\* A manifest is modelled by its 'checkpoints' list, each entry by its 'logdir'.
Manifests == SeqsUpTo(LogDirs, MaxCheckpoints)

\* A slip that would accept a manifest with several checkpoints.
ManifestMatches_AnyCount(d, ld) == Len(d) >= 1 /\ d[1] = ld

\* rllib_utils.py:40-43: the test applied to one loaded manifest d.
ManifestMatches(d, ld) == Len(d) = 1 /\ d[1] = ld

\* rllib_utils.py:36-45: the for loop over the glob, in the order `order`;
\* the result is json_fname and the number of files opened.
RECURSIVE ScanManifests(_, _, _, _)
ScanManifests(files, order, ld, i) ==
    IF i > Len(order) THEN [json_fname |-> "None", reads |-> i - 1]
    ELSE IF ManifestMatches(files[order[i]], ld)
         THEN [json_fname |-> order[i], reads |-> i]
         ELSE ScanManifests(files, order, ld, i + 1)

LoggerInit ==
    /\ cfg = IdleCfg /\ shp = IdleShp /\ model = NoModel /\ vf = NoCall
    /\ lg_state = "uninitialized"
    /\ logdir = "None"
    /\ saved_continue_script = "unset"
    /\ meta_written = {}
    /\ fs \in UNION {[S -> Manifests] : S \in SUBSET JsonFiles}
    /\ continue_py = "None"
    /\ n_results = 0
    /\ n_reads = 0
    /\ n_writes = 0

\* rllib_utils.py:22-25 (Logger.__init__ sets self.logdir and calls _init once)
_init(ld) ==
    /\ lg_state = "uninitialized"
    /\ lg_state' = "initialized"
    /\ logdir' = ld
    /\ meta_written' = meta_written \cup {ld}
    /\ saved_continue_script' = "False"
    /\ UNCHANGED <<fs, continue_py, n_results, n_reads, n_writes>>
    /\ UNCHANGED <<cfg, shp, model, vf>>

\* A slip: the early return on the flag is missing.
on_result_NoEarlyReturn ==
    /\ lg_state = "initialized"
    /\ n_results < MaxResults
    /\ n_results' = n_results + 1
    /\ saved_continue_script' = "True"
    /\ \E order \in Perms(DOMAIN fs) :
         LET r == ScanManifests(fs, order, logdir, 1) IN
         /\ n_reads' = n_reads + r.reads
         /\ IF r.json_fname # "None"
            THEN /\ continue_py' = r.json_fname
                 /\ n_writes' = n_writes + 1
            ELSE UNCHANGED <<continue_py, n_writes>>
    /\ UNCHANGED <<lg_state, logdir, meta_written, fs>>
    /\ UNCHANGED <<cfg, shp, model, vf>>

\* A slip: the flag is set only once the script has been written.
on_result_FlagOnWrite ==
    /\ lg_state = "initialized"
    /\ n_results < MaxResults
    /\ n_results' = n_results + 1
    /\ IF saved_continue_script = "True"
       THEN UNCHANGED <<saved_continue_script, continue_py, n_reads, n_writes>>
       ELSE \E order \in Perms(DOMAIN fs) :
                 LET r == ScanManifests(fs, order, logdir, 1) IN
                 /\ n_reads' = n_reads + r.reads
                 /\ IF r.json_fname # "None"
                    THEN /\ continue_py' = r.json_fname
                         /\ n_writes' = n_writes + 1
                         /\ saved_continue_script' = "True"
                    ELSE UNCHANGED <<continue_py, n_writes, saved_continue_script>>
    /\ UNCHANGED <<lg_state, logdir, meta_written, fs>>
    /\ UNCHANGED <<cfg, shp, model, vf>>

\* rllib_utils.py:27-60
on_result ==
    /\ lg_state = "initialized"
    /\ n_results < MaxResults
    /\ n_results' = n_results + 1
    /\ IF saved_continue_script = "True"
       THEN UNCHANGED <<saved_continue_script, continue_py, n_reads, n_writes>>
       ELSE /\ saved_continue_script' = "True"
            /\ \E order \in Perms(DOMAIN fs) :
                 LET r == ScanManifests(fs, order, logdir, 1) IN
                 /\ n_reads' = n_reads + r.reads
                 /\ IF r.json_fname # "None"
                    THEN /\ continue_py' = r.json_fname
                         /\ n_writes' = n_writes + 1
                    ELSE UNCHANGED <<continue_py, n_writes>>
    /\ UNCHANGED <<lg_state, logdir, meta_written, fs>>
    /\ UNCHANGED <<cfg, shp, model, vf>>

\* The training framework (re)writes a run manifest in the experiment directory.
WriteManifest(f, d) ==
    /\ fs' = [x \in DOMAIN fs \cup {f} |-> IF x = f THEN d ELSE fs[x]]
    /\ fs' # fs
    /\ UNCHANGED <<lg_state, logdir, saved_continue_script, meta_written,
                   continue_py, n_results, n_reads, n_writes>>
    /\ UNCHANGED <<cfg, shp, model, vf>>

LoggerNext ==
    \/ \E ld \in LogDirs : _init(ld)
    \/ on_result
    \/ \E f \in JsonFiles, d \in Manifests : WriteManifest(f, d)

LoggerSpec == LoggerInit /\ [][LoggerNext]_vars

\* Some manifest of the directory has exactly one checkpoint, whose logdir is ld.
SomeManifestNamesRun(files, ld) ==
    \E f \in DOMAIN files : Len(files[f]) = 1 /\ files[f][1] = ld

\* C1: over any sequence of on_result callbacks after _init, continue.py is
\* written at most once, and the second and every later on_result call reads
\* no manifest and writes no file.
C1_ContinueScriptWrittenAtMostOnce ==
    [][ /\ n_writes' <= 1
        /\ (n_results' # n_results /\ n_results >= 1)
              => /\ n_reads' = n_reads
                 /\ n_writes' = n_writes
                 /\ continue_py' = continue_py ]_vars

\* C1 witness: a second callback has run after the first one wrote the script.
C1_Witness == n_results >= 2 /\ n_writes = 1 /\ continue_py # "None"

\* C2: an on_result call writes continue.py only if some manifest of the
\* directory holds exactly one checkpoint whose logdir is the logger's; when
\* none does (also when a manifest names the logdir among zero or several
\* checkpoints) nothing is written and the call returns.
C2_WrittenOnlyForSingleCheckpointMatch ==
    [][ (n_results' # n_results)
          => /\ (n_writes' # n_writes \/ continue_py' # continue_py)
                   => SomeManifestNamesRun(fs, logdir)
             /\ ~SomeManifestNamesRun(fs, logdir)
                   => /\ continue_py' = continue_py /\ n_writes' = n_writes
                      /\ n_results' = n_results + 1
                      /\ saved_continue_script' = "True" ]_vars

\* C2 witness: the callback ran over a directory whose only mention of the
\* logdir is in a manifest with two checkpoints, and wrote nothing.
C2_Witness ==
    /\ n_results = 1 /\ n_reads = 2 /\ n_writes = 0 /\ continue_py = "None"
    /\ \E f \in DOMAIN fs : Len(fs[f]) = 2 /\ fs[f][1] = logdir
    /\ ~SomeManifestNamesRun(fs, logdir)

\* C10: saved_continue_script is false after _init, true from the first
\* on_result call on whatever the manifest search finds, and never false
\* again; so once a first call has found nothing, no later call writes the
\* script, even if a matching manifest has appeared since.
C10_FlagSetOnFirstResultForGood ==
    [][ /\ (lg_state = "uninitialized" /\ lg_state' = "initialized")
              => saved_continue_script' = "False"
        /\ (n_results = 0 /\ n_results' = 1) => saved_continue_script' = "True"
        /\ saved_continue_script = "True" => saved_continue_script' = "True"
        /\ (n_results >= 1 /\ n_writes = 0)
              => (n_writes' = 0 /\ continue_py' = "None") ]_vars

\* C10 witness: two callbacks ran, none wrote, and a matching manifest is there.
C10_Witness ==
    /\ n_results >= 2 /\ n_writes = 0 /\ saved_continue_script = "True"
    /\ SomeManifestNamesRun(fs, logdir)

(***************************************************************************)
(* make_basic_rllib_config                                                 *)
(***************************************************************************)
GPUCounts == {0, 1, 2}

\* One params['rllib'][blk] mapping, reduced to its config.num_workers entry
\* (has = FALSE: the block does not set it).
BlockVals == {[has |-> FALSE, nw |-> 0]}
             \cup {[has |-> TRUE, nw |-> n] : n \in 0..MaxRequested}

\* rllib_utils.py:107-108: ray.tune.utils.merge_dicts over the named blocks,
\* last writer wins; nw is kwargs['config']['num_workers'] so far.
RECURSIVE MergeBlocks(_, _, _)
MergeBlocks(nw, blocks, i) ==
    IF i > Len(blocks) THEN nw
    ELSE MergeBlocks(IF blocks[i].has THEN blocks[i].nw ELSE nw, blocks, i + 1)

\* rllib_utils.py:82: int(np.clip(int(resources['GPU']), 0, 1))
GpuAvail(gpu) == IF gpu < 0 THEN 0 ELSE IF gpu > 1 THEN 1 ELSE gpu

\* A slip: the clamp compares with the CPU count instead of CPU - 1.
ResolveWorkers_OffByOne(cpu, blocks) ==
    LET max_num_workers == cpu - 1
        merged == MergeBlocks(max_num_workers, blocks, 1)
    IN  IF merged > cpu
        THEN [num_workers |-> max_num_workers, warned |-> TRUE]
        ELSE [num_workers |-> merged, warned |-> FALSE]

\* rllib_utils.py:80-81, 97-113: the worker count of the returned kwargs and
\* whether warnings.warn was called.
ResolveWorkers(cpu, blocks) ==
    LET max_num_workers == cpu - 1
        merged == MergeBlocks(max_num_workers, blocks, 1)
    IN  IF merged > max_num_workers
        THEN [num_workers |-> max_num_workers, warned |-> TRUE]
        ELSE [num_workers |-> merged, warned |-> FALSE]

ConfigInit ==
    /\ LoggerIdle /\ shp = IdleShp /\ model = NoModel /\ vf = NoCall
    /\ \E cpu \in 1..MaxCPU, gpu \in GPUCounts :
       \E n \in 1..MaxBlocks : \E blocks \in [1..n -> BlockVals] :
         cfg = [IdleCfg EXCEPT !.cpu = cpu, !.gpu = gpu, !.blocks = blocks]

\* rllib_utils.py:73-121
make_basic_rllib_config ==
    /\ ~cfg.called
    /\ LET r == ResolveWorkers(cfg.cpu, cfg.blocks) IN
       cfg' = [cfg EXCEPT !.called = TRUE,
                          !.max_num_workers = cfg.cpu - 1,
                          !.num_gpus = GpuAvail(cfg.gpu),
                          !.num_workers = r.num_workers,
                          !.warned = r.warned]
    /\ UNCHANGED <<lgvars, shp, model, vf>>

ConfigNext == make_basic_rllib_config

ConfigSpec == ConfigInit /\ [][ConfigNext]_vars

\* The num_workers the configuration asks for: the last block that sets it,
\* the default (CPU - 1) when none does.
Requested(c) ==
    LET setters == {i \in 1..Len(c.blocks) : c.blocks[i].has} IN
    IF setters = {} THEN c.cpu - 1
    ELSE c.blocks[CHOOSE i \in setters : \A j \in setters : j <= i].nw

\* C4: with max = CPU count - 1, a requested num_workers <= max is returned
\* unchanged without a warning, a requested value > max is returned as max
\* with a warning, and the returned num_workers is always <= max.
C4_WorkersClampedToCpuMinusOne ==
    cfg.called =>
        /\ Requested(cfg) <= cfg.cpu - 1
              => (cfg.num_workers = Requested(cfg) /\ ~cfg.warned)
        /\ Requested(cfg) > cfg.cpu - 1
              => (cfg.num_workers = cfg.cpu - 1 /\ cfg.warned)
        /\ cfg.num_workers <= cfg.cpu - 1

\* C4 witness: one request that was clamped (two blocks, the later one wins).
C4_Witness ==
    /\ cfg.called /\ cfg.warned /\ Len(cfg.blocks) = 2
    /\ cfg.blocks[1].has /\ cfg.blocks[1].nw < cfg.cpu - 1
    /\ cfg.blocks[2].has /\ cfg.blocks[2].nw = cfg.cpu
    /\ cfg.num_workers = cfg.cpu - 1

(***************************************************************************)
(* out_shape                                                               *)
(***************************************************************************)
\* numpy arrays of dimension 0 or 1: np.asarray of an int, of a sequence.
Scalar(x) == [ndim |-> 0, v |-> <<x>>]
Vector(xs) == [ndim |-> 1, v |-> xs]

\* numpy broadcasting of 0- and 1-dimensional operands: lengths must be 1 or
\* the common length.
BroadcastLen(arrs) ==
    LET lens == {Len(arrs[j].v) : j \in 1..Len(arrs)}
    IN  CHOOSE n \in lens : \A m \in lens : m <= n
Broadcastable(arrs) ==
    \A j \in 1..Len(arrs) : Len(arrs[j].v) \in {1, BroadcastLen(arrs)}
At(a, j) == IF Len(a.v) = 1 THEN a.v[1] ELSE a.v[j]

\* torch_models.py:54: np.floor((i + 2 * p - k) / s) + 1 on one axis (s >= 1;
\* the sizes are far inside int32, which line 55 casts to).
ConvArith(i, k, s, p) == ((i + 2 * p - k) \div s) + 1

\* A slip: the padding is counted once.
out_shape_PadOnce(inp_shape, kernel, stride, padding) ==
    LET i == IF inp_shape.ndim = 0 THEN Vector(inp_shape.v) ELSE inp_shape
        n == BroadcastLen(<<i, padding, kernel, stride>>)
        o == Vector([j \in 1..n |->
                 ((At(i, j) + At(padding, j) - At(kernel, j))
                      \div At(stride, j)) + 1])
    IN  IF ~Broadcastable(<<i, padding, kernel, stride>>)
        THEN [raised |-> "ValueError", out |-> NoArray]
        ELSE [raised |-> "none",
              out |-> IF inp_shape.ndim = 0 /\ n = 1 THEN Scalar(o.v[1]) ELSE o]

\* torch_models.py:37-57
out_shape(inp_shape, kernel, stride, padding) ==
    LET scalar_input == inp_shape.ndim = 0
        \* line 51: i[np.newaxis]
        i == IF scalar_input THEN Vector(inp_shape.v) ELSE inp_shape
        n == BroadcastLen(<<i, padding, kernel, stride>>)
        o == Vector([j \in 1..n |->
                 ConvArith(At(i, j), At(kernel, j), At(stride, j), At(padding, j))])
    IN  IF ~Broadcastable(<<i, padding, kernel, stride>>)
        THEN [raised |-> "ValueError", out |-> NoArray]
        ELSE [raised |-> "none",
              \* line 57: np.squeeze(o) drops an axis of length 1 only
              out |-> IF scalar_input /\ n = 1 THEN Scalar(o.v[1]) ELSE o]

AxisCounts == {1, 2}
Arrays(S) == {Scalar(x) : x \in S}
             \cup UNION {{Vector(xs) : xs \in [1..n -> S]} : n \in AxisCounts}
Kernels == {1, 2, 3}
Strides == {1, 2}
Paddings == {0, 1}

ShapeInit ==
    /\ LoggerIdle /\ cfg = IdleCfg /\ model = NoModel /\ vf = NoCall
    /\ \E i \in Arrays(1..MaxSize), k \in Arrays(Kernels),
          s \in Arrays(Strides), p \in Arrays(Paddings) :
         shp = [IdleShp EXCEPT !.inp = i, !.kernel = k, !.stride = s,
                               !.padding = p]

CallOutShape ==
    /\ ~shp.called
    /\ LET r == out_shape(shp.inp, shp.kernel, shp.stride, shp.padding) IN
       shp' = [shp EXCEPT !.called = TRUE, !.raised = r.raised, !.out = r.out]
    /\ UNCHANGED <<lgvars, cfg, model, vf>>

ShapeNext == CallOutShape

ShapeSpec == ShapeInit /\ [][ShapeNext]_vars

\* The closed form floor(x / s), stated without \div.
IsFloorOf(q, x, s) == q * s <= x /\ x < (q + 1) * s

\* No operand has more axes than the input size.
ValidShapeArgs(c) ==
    \A a \in {c.kernel, c.stride, c.padding} : Len(a.v) \in {1, Len(c.inp.v)}

\* C5: for valid integer sizes, out_shape(i, k, s, p) is
\* floor((i + 2p - k) / s) + 1 on every axis; a scalar input size gives a
\* zero-dimensional result, a vector of length n a vector of length n.
C5_OutShapeIsConvArithmetic ==
    (shp.called /\ ValidShapeArgs(shp)) =>
        /\ shp.raised = "none"
        /\ shp.out.ndim = shp.inp.ndim
        /\ Len(shp.out.v) = Len(shp.inp.v)
        /\ \A j \in 1..Len(shp.inp.v) :
              IsFloorOf(shp.out.v[j] - 1,
                        At(shp.inp, j) + 2 * At(shp.padding, j) - At(shp.kernel, j),
                        At(shp.stride, j))

\* C5 witness: a two-axis call with per-axis kernels whose quotients round down.
C5_Witness ==
    /\ shp.called
    /\ shp.inp = Vector(<<5, 4>>) /\ shp.kernel = Vector(<<2, 3>>)
    /\ shp.stride = Scalar(2) /\ shp.padding = Scalar(1)
    /\ shp.out = Vector(<<3, 2>>)

(***************************************************************************)
(* torch_models.py: modules.  A tensor is abstracted to one feature, held   *)
(* in hundredths; a weight is an integer, a bias is in hundredths.          *)
(***************************************************************************)
Seeds == 0..MaxSeed

\* The generator's draw for parameter slot n under a seed.
RandW(seed, n) == <<-1, 1, 2>>[(((seed + 1) * (n + 3) + seed) % 3) + 1]
RandB(seed, n) == 100 * (((seed + n) % 3) - 1)

Mod(kind) == [kind |-> kind, layers |-> <<>>, xavier |-> FALSE, w |-> 0,
              b |-> 0, inp |-> 0, out |-> 0, k |-> 0, s |-> 0, slot |-> 0]
\* nn.Linear / nn.Conv2d with torch's default (random) parameters
Linear(inp, out, seed, slot) ==
    [Mod("Linear") EXCEPT !.inp = inp, !.out = out, !.slot = slot,
                          !.w = RandW(seed, slot), !.b = RandB(seed, slot)]
Conv2d(in_c, out_c, k, s, seed, slot) ==
    [Mod("Conv2d") EXCEPT !.inp = in_c, !.out = out_c, !.k = k, !.s = s,
                          !.slot = slot,
                          !.w = RandW(seed, slot), !.b = RandB(seed, slot)]
ReLU == Mod("ReLU")
ZeroPad2d == Mod("ZeroPad2d")
MaxPool2d(k, s) == [Mod("MaxPool2d") EXCEPT !.k = k, !.s = s]
Sequential(layers) == [Mod("Sequential") EXCEPT !.layers = layers]
ModuleList(layers) == [Mod("ModuleList") EXCEPT !.layers = layers]

IsParam(m) == m.kind \in {"Linear", "Conv2d"}

\* torch_models.py:15-18: Xavier-uniform weight, bias 0.01.
xavier_init(m, seed) ==
    IF IsParam(m)
    THEN [m EXCEPT !.xavier = TRUE, !.w = RandW(seed, m.slot + 100),
                   !.b = 1]
    ELSE m

\* torch_models.py:21-25: xavier_init on each module of the list itself.
init_modules(modules, seed) ==
    [j \in 1..Len(modules) |-> xavier_init(modules[j], seed)]

\* Calling a module on x.  On the one feature kept, padding and pooling pass
\* the value on; a ModuleList is not callable and is walked by its owner.
RECURSIVE Apply(_, _)
RECURSIVE ApplySeq(_, _, _)
Apply(m, x) ==
    CASE IsParam(m) -> m.w * x + m.b
      [] m.kind = "ReLU" -> Max2(0, x)
      [] m.kind = "Sequential" -> ApplySeq(m.layers, x, 1)
      [] OTHER -> x
ApplySeq(layers, x, j) ==
    IF j > Len(layers) THEN x ELSE ApplySeq(layers, Apply(layers[j], x), j + 1)

RECURSIVE Prod(_)
Prod(xs) == IF xs = <<>> THEN 1 ELSE Head(xs) * Prod(Tail(xs))

RECURSIVE ParamLeaves(_)
\* The Linear and Conv2d modules at any depth of m, m included.
ParamLeaves(m) ==
    IF IsParam(m) THEN {m}
    ELSE UNION {ParamLeaves(m.layers[j]) : j \in 1..Len(m.layers)}

Unset == [tag |-> "unset", val |-> 0]
None == [tag |-> "None", val |-> 0]
Tensor(x) == [tag |-> "tensor", val |-> x]

(***************************************************************************)
(* torch_models.py: the model classes                                      *)
(***************************************************************************)
\* A model object: mods are its nn.Module attributes; init_passed names the
\* attributes that were handed to init_modules; forwarded and last_obs record
\* the forward calls made; out_shp is the shape the encoder builder returned.
NewModel(variant, seed, obs_shape, num_outputs) ==
    [variant |-> variant, seed |-> seed, obs_shape |-> obs_shape,
     num_outputs |-> num_outputs, mods |-> [x \in {} |-> ReLU],
     init_passed |-> {}, out_shp |-> <<>>,
     cur_value |-> Unset, last_output |-> None,
     forwarded |-> FALSE, last_obs |-> 0]

\* self.<name> = m for every name of the function ms
SetMods(m, ms) ==
    [m EXCEPT !.mods = [x \in DOMAIN m.mods \cup DOMAIN ms |->
                           IF x \in DOMAIN ms THEN ms[x] ELSE m.mods[x]]]

\* init_modules(names' modules): the modules are changed in place.
InitAttrs(m, names) ==
    LET done == init_modules([j \in 1..Len(names) |-> m.mods[names[j]]], m.seed)
    IN  [m EXCEPT !.mods = [x \in DOMAIN m.mods |->
                               IF \E j \in 1..Len(names) : names[j] = x
                               THEN done[CHOOSE j \in 1..Len(names) : names[j] = x]
                               ELSE m.mods[x]],
                  !.init_passed = @ \cup {names[j] : j \in 1..Len(names)}]

\* torch_models.py:79-82: TorchForwardModel.__init__
TorchForwardModel_init(variant, seed, obs_shape, num_outputs) ==
    [NewModel(variant, seed, obs_shape, num_outputs) EXCEPT !.cur_value = None]

\* torch_models.py:84-87
_make_linear_head(m, inp_size) ==
    InitAttrs(SetMods(m, [x \in {"pi_layer", "v_layer"} |->
                            IF x = "pi_layer"
                            THEN Linear(inp_size, m.num_outputs, m.seed, 20)
                            ELSE Linear(inp_size, 1, m.seed, 21)]),
              <<"pi_layer", "v_layer">>)

\* torch_models.py:89-93
_forward_helper(m, x) ==
    [m EXCEPT !.cur_value = Tensor(Apply(m.mods["v_layer"], x)),
              !.last_output = Tensor(Apply(m.mods["pi_layer"], x))]

\* ---- FCNet
\* torch_models.py:112-119: Linear, ReLU for each pair of consecutive sizes;
\* base numbers the parameter slots of the stack.
make_layers(sizes, seed, base) ==
    [j \in 1..(2 * (Len(sizes) - 1)) |->
        IF j % 2 = 1
        THEN Linear(sizes[(j + 1) \div 2], sizes[(j + 1) \div 2 + 1], seed,
                    base + (j + 1) \div 2)
        ELSE ReLU]

\* torch_models.py:105-130
FCNet_init(obs_shape, num_outputs, fcnet_hiddens, seed) ==
    LET sizes == <<Prod(obs_shape)>> \o fcnet_hiddens
        last == fcnet_hiddens[Len(fcnet_hiddens)]
        m0 == NewModel("FCNet", seed, obs_shape, num_outputs)
        m1 == SetMods(m0,
                [x \in {"pi_network", "v_network", "pi_layer", "v_layer"} |->
                   CASE x = "pi_network" -> Sequential(make_layers(sizes, seed, 0))
                     [] x = "v_network" -> Sequential(make_layers(sizes, seed, 10))
                     [] x = "pi_layer" -> Linear(last, num_outputs, seed, 20)
                     [] x = "v_layer" -> Linear(last, 1, seed, 21)])
    IN  InitAttrs(m1, <<"pi_network", "v_network", "pi_layer", "v_layer">>)

\* torch_models.py:134-146
FCNet_forward(m, obs) ==
    LET pi_emb == Apply(m.mods["pi_network"], obs)
        v_emb == Apply(m.mods["pi_network"], obs)
    IN  [m EXCEPT !.cur_value = Tensor(Apply(m.mods["v_layer"], v_emb)),
                  !.last_output = Tensor(Apply(m.mods["pi_layer"], pi_emb)),
                  !.forwarded = TRUE, !.last_obs = obs]

\* ---- TorchDQNModel
DqnChannels == <<32, 64, 64>>
DqnKernels == <<8, 4, 4>>
DqnStrides == <<4, 2, 2>>

\* torch_models.py:66-69: out_shp after the first j stages
RECURSIVE DqnOutShp(_, _)
DqnOutShp(obs_shape, j) ==
    IF j = 0 THEN Vector(SubSeq(obs_shape, 1, Len(obs_shape) - 1))
    ELSE out_shape(DqnOutShp(obs_shape, j - 1), Scalar(DqnKernels[j]),
                   Scalar(DqnStrides[j]), Scalar(0)).out

\* A slip: the third stage taken from the Nature DQN schedule (kernel 3, stride 1).
dqn_cnn_NatureSchedule(obs_shape, seed) ==
    LET channels == <<obs_shape[Len(obs_shape)]>> \o DqnChannels
        kernels == <<8, 4, 3>>
        strides == <<4, 2, 1>>
        shp2 == DqnOutShp(obs_shape, 2)
        shp3 == out_shape(shp2, Scalar(3), Scalar(1), Scalar(0)).out
    IN  [cnn_layers |->
            [j \in 1..(2 * Len(kernels)) |->
               IF j % 2 = 1
               THEN Conv2d(channels[(j + 1) \div 2], channels[(j + 1) \div 2 + 1],
                           kernels[(j + 1) \div 2], strides[(j + 1) \div 2],
                           seed, (j + 1) \div 2)
               ELSE ReLU],
         out_shp |-> shp3.v \o <<channels[Len(channels)]>>]

\* torch_models.py:60-74
dqn_cnn(obs_shape, seed) ==
    LET channels == <<obs_shape[Len(obs_shape)]>> \o DqnChannels
    IN  [cnn_layers |->
            [j \in 1..(2 * Len(DqnKernels)) |->
               IF j % 2 = 1
               THEN Conv2d(channels[(j + 1) \div 2], channels[(j + 1) \div 2 + 1],
                           DqnKernels[(j + 1) \div 2], DqnStrides[(j + 1) \div 2],
                           seed, (j + 1) \div 2)
               ELSE ReLU],
         out_shp |-> DqnOutShp(obs_shape, Len(DqnKernels)).v
                        \o <<channels[Len(channels)]>>]

\* torch_models.py:156-166
TorchDQNModel_init(obs_shape, num_outputs, seed) ==
    LET m0 == TorchForwardModel_init("TorchDQNModel", seed, obs_shape, num_outputs)
        c == dqn_cnn(obs_shape, seed)
        m1 == SetMods([m0 EXCEPT !.out_shp = c.out_shp],
                [x \in {"cnn", "fc"} |->
                   IF x = "cnn" THEN Sequential(c.cnn_layers)
                   ELSE Sequential(<<ReLU, Linear(Prod(c.out_shp), 512, seed, 9),
                                     ReLU>>)])
        m2 == _make_linear_head(m1, 512)
    IN  InitAttrs(m2, <<"cnn", "fc", "pi_layer">>)

\* torch_models.py:170-178 (obs is x after line 175, the pixel over 255)
TorchDQNModel_forward(m, obs) ==
    LET x == Apply(m.mods["fc"], Apply(m.mods["cnn"], obs))
    IN  [_forward_helper(m, x) EXCEPT !.forwarded = TRUE, !.last_obs = obs]

\* ---- TorchImpalaModel
ImpalaChannels == <<16, 32, 32, 32>>

\* ray's valid_padding (torch_models.py:243-249 bind its filter and stride):
\* the output size is ceil(in / stride) on each axis.
ValidPaddingOut(shape, stride) ==
    [j \in 1..Len(shape) |-> (shape[j] + stride - 1) \div stride]

\* torch_models.py:254, 258: out_shp after the first t stages (the convolution
\* has stride 1, the max-pool stride 2)
RECURSIVE ImpalaOutShp(_, _)
ImpalaOutShp(obs_shape, t) ==
    IF t = 0 THEN SubSeq(obs_shape, 1, Len(obs_shape) - 1)
    ELSE ValidPaddingOut(ValidPaddingOut(ImpalaOutShp(obs_shape, t - 1), 1), 2)

\* torch_models.py:269-273: the loop `for _ in range(2)`, whose body starts by
\* binding res_block to a new empty list; the result is res_block after it.
RECURSIVE ResBlockLoop(_, _, _, _, _)
ResBlockLoop(it, res_block, out_c, seed, base) ==
    IF it > 2 THEN res_block
    ELSE LET fresh == <<>> IN
         ResBlockLoop(it + 1,
                      fresh \o <<ReLU, ZeroPad2d,
                                 Conv2d(out_c, out_c, 3, 1, seed, base + it)>>,
                      out_c, seed, base)

\* torch_models.py:265-276: one stage's group of num_res_blocks = 2 blocks
ResBlockGroup(out_c, seed, base) ==
    ModuleList([r \in 1..2 |->
        Sequential(ResBlockLoop(1, <<>>, out_c, seed, base + 2 * r))])

\* torch_models.py:226-281
_cnn(obs_shape, seed) ==
    LET channels == <<obs_shape[Len(obs_shape)]>> \o ImpalaChannels
        stages == Len(channels) - 1
    IN  [convs |-> ModuleList([t \in 1..stages |->
                      Sequential(<<ZeroPad2d,
                                   Conv2d(channels[t], channels[t + 1], 3, 1,
                                          seed, 30 + t),
                                   ZeroPad2d, MaxPool2d(3, 2)>>)]),
         res_blocks |-> ModuleList([t \in 1..stages |->
                      ResBlockGroup(channels[t + 1], seed, 40 + 10 * t)]),
         out_sizes |-> ImpalaOutShp(obs_shape, stages)
                          \o <<channels[Len(channels)]>>]

\* torch_models.py:188-200, 221-223
TorchImpalaModel_init(obs_shape, num_outputs, seed) ==
    LET m0 == TorchForwardModel_init("TorchImpalaModel", seed, obs_shape,
                                     num_outputs)
        c == _cnn(obs_shape, seed)
        m1 == SetMods([m0 EXCEPT !.out_shp = c.out_sizes],
                [x \in {"convs", "res_blocks", "fc"} |->
                   CASE x = "convs" -> c.convs
                     [] x = "res_blocks" -> c.res_blocks
                     [] x = "fc" ->
                          Sequential(<<ReLU, Linear(Prod(c.out_sizes), 512, seed, 9),
                                       ReLU>>)])
        m2 == _make_linear_head(m1, 512)
    IN  InitAttrs(m2, <<"convs", "res_blocks", "fc", "pi_layer", "v_layer">>)

\* torch_models.py:213-214: x = x + res_block(x) over one group, from block r
RECURSIVE ApplyResGroup(_, _, _)
ApplyResGroup(group, x, r) ==
    IF r > Len(group.layers) THEN x
    ELSE ApplyResGroup(group, x + Apply(group.layers[r], x), r + 1)

\* torch_models.py:211-214: the stages from t on
RECURSIVE ApplyStages(_, _, _, _)
ApplyStages(convs, res_blocks, x, t) ==
    IF t > Len(convs.layers) \/ t > Len(res_blocks.layers) THEN x
    ELSE ApplyStages(convs, res_blocks,
                     ApplyResGroup(res_blocks.layers[t],
                                   Apply(convs.layers[t], x), 1),
                     t + 1)

\* torch_models.py:204-219 (obs is x after line 210, the pixel over 255)
TorchImpalaModel_forward(m, obs) ==
    LET cnn_emb == ApplyStages(m.mods["convs"], m.mods["res_blocks"], obs, 1)
        fc_emb == Apply(m.mods["fc"], cnn_emb)
    IN  [_forward_helper(m, fc_emb) EXCEPT !.forwarded = TRUE, !.last_obs = obs]

\* ---- the framework's use of a model
FCObsShapes == {<<4>>}
FCHiddens == {<<64>>, <<64, 64>>, <<32, 16>>}
DqnObsShapes == {<<84, 84, 4>>, <<44, 60, 1>>}
ImpalaObsShapes == {<<84, 84, 4>>, <<64, 64, 3>>}
NumOutputs == {2}
\* observation features in hundredths: 0, 0.2 (pixel 51), 1 (pixel 255)
Inputs == {0, 20, 100}

ForwardOf(m, obs) ==
    CASE m.variant = "FCNet" -> FCNet_forward(m, obs)
      [] m.variant = "TorchDQNModel" -> TorchDQNModel_forward(m, obs)
      [] m.variant = "TorchImpalaModel" -> TorchImpalaModel_forward(m, obs)

ModelInit ==
    /\ LoggerIdle /\ cfg = IdleCfg /\ shp = IdleShp
    /\ model = NoModel
    /\ vf = NoCall

ConstructFCNet ==
    /\ model.variant = "None"
    /\ \E o \in FCObsShapes, n \in NumOutputs, h \in FCHiddens, seed \in Seeds :
         model' = FCNet_init(o, n, h, seed)
    /\ UNCHANGED <<lgvars, cfg, shp, vf>>

ConstructDQN ==
    /\ model.variant = "None"
    /\ \E o \in DqnObsShapes, n \in NumOutputs, seed \in Seeds :
         model' = TorchDQNModel_init(o, n, seed)
    /\ UNCHANGED <<lgvars, cfg, shp, vf>>

ConstructImpala ==
    /\ model.variant = "None"
    /\ \E o \in ImpalaObsShapes, n \in NumOutputs, seed \in Seeds :
         model' = TorchImpalaModel_init(o, n, seed)
    /\ UNCHANGED <<lgvars, cfg, shp, vf>>

forward ==
    /\ model.variant # "None"
    /\ \E obs \in Inputs : model' = ForwardOf(model, obs)
    /\ UNCHANGED <<lgvars, cfg, shp, vf>>

\* torch_models.py:96-98 and 149-151: reading an attribute that was never
\* assigned raises AttributeError (nn.Module.__getattr__) before the assert.
value_function ==
    /\ model.variant # "None"
    /\ vf' = [outcome |-> CASE model.cur_value.tag = "unset" -> "AttributeError"
                            [] model.cur_value.tag = "None" -> "AssertionError"
                            [] OTHER -> "returned",
              value |-> model.cur_value.val,
              forwarded |-> model.forwarded, obs |-> model.last_obs]
    /\ UNCHANGED <<lgvars, cfg, shp, model>>

ModelNext ==
    \/ ConstructFCNet
    \/ ConstructDQN
    \/ ConstructImpala
    \/ forward
    \/ value_function

ModelSpec == ModelInit /\ [][ModelNext]_vars

\* C3: for every model variant, value_function before any forward call fails
\* with the assertion error 'must call forward() first'; after a forward call
\* it returns the value estimate the most recent forward call cached.
C3_ValueFunctionAssertsBeforeForward ==
    vf.outcome # "none" =>
        IF ~vf.forwarded
        THEN vf.outcome = "AssertionError"
        ELSE /\ vf.outcome = "returned"
             /\ vf.value = ForwardOf(model, vf.obs).cur_value.val

\* C6: in FCNet, after forward, the cached value estimate is v_layer applied to
\* the value stack's output on the observation, and the logits are pi_layer
\* applied to the policy stack's output: neither depends on the other stack.
C6_FCNetValueComesFromValueStack ==
    (model.variant = "FCNet" /\ model.forwarded) =>
        /\ model.cur_value =
              Tensor(Apply(model.mods["v_layer"],
                           Apply(model.mods["v_network"], model.last_obs)))
        /\ model.last_output =
              Tensor(Apply(model.mods["pi_layer"],
                           Apply(model.mods["pi_network"], model.last_obs)))

Kinds(layers) == [j \in 1..Len(layers) |-> layers[j].kind]

\* C7: in TorchImpalaModel each of the four convolution stages is followed by
\* exactly two residual blocks, and every residual block is the six-layer
\* sequence activation, zero-pad, convolution, activation, zero-pad,
\* convolution.
C7_ResidualBlockHasSixLayers ==
    model.variant = "TorchImpalaModel" =>
        /\ Len(model.mods["convs"].layers) = 4
        /\ Len(model.mods["res_blocks"].layers) = 4
        /\ \A t \in 1..Len(model.mods["res_blocks"].layers) :
              LET group == model.mods["res_blocks"].layers[t] IN
              /\ Len(group.layers) = 2
              /\ \A r \in 1..Len(group.layers) :
                    Kinds(group.layers[r].layers) =
                       <<"ReLU", "ZeroPad2d", "Conv2d",
                         "ReLU", "ZeroPad2d", "Conv2d">>

\* C8: after construction of any model variant, every linear and convolutional
\* sub-module at any depth of a module passed to init_modules has the Xavier
\* weight initialisation and the constant bias 0.01.
C8_EveryNestedLayerIsXavierInitialised ==
    model.variant # "None" =>
        \A name \in model.init_passed :
            \A leaf \in ParamLeaves(model.mods[name]) :
                leaf.xavier /\ leaf.b = 1

\* floor((n - k) / s) + 1, stated without out_shape.
StageSize(n, k, s) == CHOOSE o \in 0..n : IsFloorOf(o - 1, n - k, s)

DqnStructure(m) ==
    LET cnn == m.mods["cnn"].layers
        spatial == SubSeq(m.obs_shape, 1, Len(m.obs_shape) - 1)
    IN  /\ Kinds(cnn) = <<"Conv2d", "ReLU", "Conv2d", "ReLU", "Conv2d", "ReLU">>
        /\ <<cnn[1].k, cnn[3].k, cnn[5].k>> = <<8, 4, 4>>
        /\ <<cnn[1].s, cnn[3].s, cnn[5].s>> = <<4, 2, 2>>
        /\ <<cnn[1].out, cnn[3].out, cnn[5].out>> = <<32, 64, 64>>
        /\ <<cnn[1].inp, cnn[3].inp, cnn[5].inp>>
              = <<m.obs_shape[Len(m.obs_shape)], 32, 64>>
        /\ m.out_shp =
              [j \in 1..Len(spatial) |->
                  StageSize(StageSize(StageSize(spatial[j], 8, 4), 4, 2), 4, 2)]
              \o <<64>>
        /\ m.mods["fc"].layers[2].inp = Prod(m.out_shp)

\* C9 as stated: three convolution+ReLU stages with kernels 8,4,4, strides
\* 4,2,2 and channels 32,64,64, the reported shape being out_shape applied
\* stage by stage; for observation shape (84, 84, 4) the spatial size goes 84,
\* 20, 9, 7, the reported shape is (7, 7, 64) and the hidden projection's
\* input width is 3136.
C9_Stated_Dqn84Gives7x7x64 ==
    model.variant = "TorchDQNModel" =>
        /\ DqnStructure(model)
        /\ model.obs_shape = <<84, 84, 4>> =>
              /\ model.out_shp = <<7, 7, 64>>
              /\ model.mods["fc"].layers[2].inp = 3136

\* C9 amended: the same three stages and stage-by-stage shape; for observation
\* shape (84, 84, 4) the spatial size goes 84, 20, 9, 3, the reported shape is
\* (3, 3, 64) and the hidden projection's input width is 576.
C9_Dqn84Gives3x3x64 ==
    model.variant = "TorchDQNModel" =>
        /\ DqnStructure(model)
        /\ model.obs_shape = <<84, 84, 4>> =>
              /\ StageSize(84, 8, 4) = 20
              /\ StageSize(20, 4, 2) = 9
              /\ StageSize(9, 4, 2) = 3
              /\ model.out_shp = <<3, 3, 64>>
              /\ model.mods["fc"].layers[2].inp = 576

\* C9 witness: a TorchDQNModel built for observation shape (84, 84, 4).
C9_Witness ==
    /\ model.variant = "TorchDQNModel"
    /\ model.obs_shape = <<84, 84, 4>>
    /\ model.out_shp = <<3, 3, 64>>
    /\ model.mods["fc"].layers[2].inp = 576

====
